---- MODULE Spec2Model ----
(***************************************************************************)
(* Combat core of the fright_night fighting game (systems.ts, factory.ts,  *)
(* components.ts).                                                         *)
(*                                                                         *)
(* Units.  The source computes with floating point seconds, metres and     *)
(* hit points; the model uses integers in units that make every number of  *)
(* the source exact:                                                       *)
(*   time      1 unit = 0.05 s     (0.8 s = 16, 0.25 s = 5, 3.0 s = 60)    *)
(*   health    1 unit = 0.5 HP     (15 = 30, 7.5 = 15, 100 = 200)          *)
(*   length    1 unit = 0.0008 m   (2.0 m = 2500, 2.3 m = 2875)            *)
(*   Math.random() in thousandths  (0.005 = 5, 0.2 = 200)                  *)
(*                                                                         *)
(* Both fighters spawn on the line z = 9, y = 0; the model keeps the fight *)
(* on that line (the x coordinate), so the forward/backward keys are not   *)
(* part of the input and every direction is -1, 0 or 1.  The facing system *)
(* only writes Transform.rotation, which nothing here reads.               *)
(*                                                                         *)
(* One frame of the engine runs the systems in the order they were added:  *)
(* gameStateSystem, unifiedTimerSystem, playerMovementSystem,              *)
(* enemyAISystem.  Each system is an operator on the world and an action   *)
(* of the state machine; pc names the system that runs next and dt is the  *)
(* frame time the engine hands to all four.  The restart button's callback *)
(* (resetMatch) runs between two frames.                                   *)
(*                                                                         *)
(* Date.now() advances by the frame time of every frame, so the combo      *)
(* window is measured in the same clock as the timers: sinceLastHit is     *)
(* Date.now()/1000 - gameState.lastHitTime, kept up to COMBO_TIMEOUT + 1   *)
(* (lastHitTime = 0, as created and as reset, is that value).              *)
(*                                                                         *)
(* hitLog, elapsed and initiatedAt are history variables: the hit checks   *)
(* the timer system has just run, each with the world before and after it, *)
(* the frame time accumulated since the countdown was started, and for a   *)
(* fighter whose hit check is pending the distance between the fighters    *)
(* when performAttack was called (0 when no hit check is pending).         *)
(* lastAttack is a history variable too: for each fighter the frame time   *)
(* since its last call of performAttack in this round and the outcome of   *)
(* its last hit check, both forgotten after SinceCap.                      *)
(***************************************************************************)
EXTENDS Integers, Sequences, FiniteSets, TLC

VARIABLES
  fighter,           \* role -> FighterComponent
  position,          \* role -> Transform.position.x
  gameState,         \* the GameState component
  sinceLastHit,      \* Date.now()/1000 - gameState.lastHitTime, saturated
  pendingHitChecks,  \* the Map<Entity, number>, in insertion order
  pc,                \* the system the engine runs next
  dt,                \* the frame time of the running frame
  elapsed,           \* dt accumulated since createGameState / resetMatch, saturated
  hitLog,            \* the hit checks unifiedTimerSystem has just run
  moves,             \* frames of this round in which the human moved the player
  enemyAttacks,      \* attacks the AI has started in this round
  initiatedAt,       \* role -> distance at which its pending attack was initiated
  lastAttack,        \* role -> time since its last performAttack, outcome of its last hit check
  menuState,         \* the MenuStateComponent
  battleInitialized, \* menuSystem.ts: let battleInitialized
  systemsRegistered, \* menuSystem.ts: let systemsRegistered
  battleEntities,    \* playerFighterEntity, enemyFighterEntity and the game state exist
  menuLog            \* calls of initializeBattle and engine.addSystem, time spent loading

vars == <<fighter, position, gameState, sinceLastHit, pendingHitChecks,
          pc, dt, elapsed, hitLog, moves, enemyAttacks, initiatedAt,
          lastAttack, menuState, battleInitialized, systemsRegistered,
          battleEntities, menuLog>>

menuVars == <<menuState, battleInitialized, systemsRegistered, battleEntities, menuLog>>

----------------------------------------------------------------------------
(* Bounds of the model *)

\* the frame times the engine hands to the systems: 0.2 s
DTs == {4}
\* the restart button is not pressed once roundNumber has reached MaxRound
MaxRound == 2
\* frames are not followed once a die lock has run for more than MaxOverTime
MaxOverTime == 12
\* the human walks the player in at most MaxMoves frames of a round; the
\* movement keys held in any other frame are the ones that move nothing.
\* With 0 the player fights from its spawn point and the enemy walks up to it
MaxMoves == 0
\* the AI starts at most MaxEnemyAttacks attacks in a round
MaxEnemyAttacks == 1
\* the values Math.random() takes, one in each interval the AI distinguishes
Rands == {2, 7, 20, 100, 500}
\* the time since a fighter's last attack is followed up to SinceCap (1.4 s)
SinceCap == 28
\* the human starts at most MaxBattles battles from the title screen
MaxBattles == 2
\* the portraits and the stage previews the human clicks
MenuCharacters == {"bandit", "goblin"}
MenuStages == {"space", "creepy"}
\* no attack of the fighter in the last SinceCap of this round
NoAttack == [since |-> SinceCap, outcome |-> "none"]

----------------------------------------------------------------------------
(* Program constants *)

MOVEMENT_SPEED == 250
ENEMY_SPEED == 200
COMBO_TIMEOUT == 30
KNOCKBACK_FORCE == 1875
KNOCKBACK_DURATION == 5
STUN_DURATION == 4
HIT_RANGE == 2500

ArenaXMin == 5000
ArenaXMax == 15000
PlayerSpawnX == 6250
EnemySpawnX == 13750

MaxHealth == 200
AttackDamage == 30
BlockedDamage == 15
AttackAnimation == 16
AttackCooldown == 16
HitCheckDelay == 8
WhiffPenalty == 6
InvincibilityDuration == 6
ImpactAnimation == 10
BlockImpactAnimation == 6
DieLock == 1999980
KnockbackCombo == 3
RecoveryThreshold == 12
CountdownStart == 60

AIBlockDistance == 3125
AIBlockCooldown == 6
AIVulnerableCooldown == 8
AIChaseDistance == 2500
AIAttackDistance == 2875
AIBlockChance == 5
AIUnblockChance == 10
AIPunishChance == 200
AIAttackChance == 30

LoadingDuration == 40
CHARACTERS == {"bandit", "goblin", "char3", "char4", "char5", "char6", "char7", "char8", "char9"}
STAGES == {"space", "creepy"}
MenuScreens == {"title", "characterSelect", "stageSelect", "loading", "battle"}
Roles == {"player", "enemy"}

\* the clips of the Animator every fighter is created with
FIGHTER_ANIMATIONS == {"idle", "run", "attack", "impact", "stun", "die", "block"}

----------------------------------------------------------------------------
(* Helpers *)

Max(a, b) == IF a >= b THEN a ELSE b
Min(a, b) == IF a <= b THEN a ELSE b
Abs(a) == IF a >= 0 THEN a ELSE -a
Sign(a) == IF a > 0 THEN 1 ELSE IF a < 0 THEN -1 ELSE 0

\* getFighterByRole(!attackerFighter.isPlayer)
Opponent(r) == IF r = "player" THEN "enemy" ELSE "player"

\* ClampX that constrains nothing
ClampXFree(x) == x

\* Math.max(xMin, Math.min(xMax, x))
ClampX(x) == Max(ArenaXMin, Min(ArenaXMax, x))

\* Vector3.distance of two points of the line
Distance(w) == Abs(w.position["player"] - w.position["enemy"])

World == [fighter |-> fighter, position |-> position, gameState |-> gameState,
          sinceLastHit |-> sinceLastHit, pendingHitChecks |-> pendingHitChecks]

----------------------------------------------------------------------------
(* factory.ts *)

createFighter(isPlayer) ==
  [isPlayer |-> isPlayer, health |-> MaxHealth, maxHealth |-> MaxHealth,
   animationTimer |-> 0, currentAnimation |-> "idle", invincibilityTimer |-> 0,
   attackCooldown |-> 0, stunTimer |-> 0, blocking |-> FALSE,
   knockbackActive |-> FALSE, knockbackProgress |-> 0, knockbackDirX |-> 0]

createGameState ==
  [isMatchActive |-> FALSE, winner |-> "", comboCount |-> 0,
   roundNumber |-> 1, countdownTimer |-> CountdownStart]

----------------------------------------------------------------------------
(* systems.ts: animations *)

\* playAnimation(entity, animationName, durationMs); duration 0 is "not provided"
playAnimation(f, animationName, duration) ==
  IF animationName \in FIGHTER_ANIMATIONS
    THEN [f EXCEPT !.currentAnimation = animationName,
                   !.animationTimer = IF duration # 0 THEN duration ELSE f.animationTimer]
    ELSE f

resetToIdle(f) == [f EXCEPT !.currentAnimation = "idle", !.animationTimer = 0]

----------------------------------------------------------------------------
(* systems.ts: damage and hit checks, as functions of the world w *)

\* damageIgnored without the guard: damage always applies
damageAlways(f) == FALSE

\* if (fighter.invincibilityTimer > 0) return
damageIgnored(f) == f.invincibilityTimer > 0

\* damagedHealth without Math.max(0, ...)
damagedHealthNoFloor(f, amount) == f.health - amount

\* Math.max(0, fighter.health - amount)
damagedHealth(f, amount) == Max(0, f.health - amount)

\* koWinner with the two roles exchanged
koWinnerSelf(f) == IF f.isPlayer THEN "player" ELSE "enemy"

\* gameState.winner = fighter.isPlayer ? 'enemy' : 'player'
koWinner(f) == IF f.isPlayer THEN "enemy" ELSE "player"

\* grantIFrames that outlasts the attack cooldown
grantIFramesLasting(f) ==
  [f EXCEPT !.invincibilityTimer = AttackCooldown + HitCheckDelay]

\* fighter.invincibilityTimer = 0.3
grantIFrames(f) == [f EXCEPT !.invincibilityTimer = InvincibilityDuration]

\* applyDamage(target, amount)
applyDamage(w, target, amount) ==
  LET f == w.fighter[target]
      gs == w.gameState
      comboCount == IF w.sinceLastHit < COMBO_TIMEOUT THEN gs.comboCount + 1 ELSE 1
      health == damagedHealth(f, amount)
      hurt == grantIFrames([f EXCEPT !.health = health])
  IN IF damageIgnored(f)
       THEN w
       ELSE IF health > 0
         THEN [w EXCEPT !.gameState.comboCount = comboCount,
                        !.sinceLastHit = 0,
                        !.fighter[target] = playAnimation(hurt, "impact", ImpactAnimation)]
         ELSE [w EXCEPT !.gameState.comboCount = comboCount,
                        !.sinceLastHit = 0,
                        !.fighter[target] = [hurt EXCEPT !.currentAnimation = "die",
                                                         !.animationTimer = DieLock],
                        !.gameState.isMatchActive = FALSE,
                        !.gameState.winner = koWinner(f)]

\* inHitRange that holds at any distance
inHitRangeAlways(w) == TRUE

\* if (distance < HIT_RANGE)
inHitRange(w) == Distance(w) < HIT_RANGE

\* the branch checkAttackHit(attacker) takes in w
HitOutcome(w, attacker) ==
  LET opponent == Opponent(attacker)
  IN IF w.fighter[opponent].invincibilityTimer > 0 THEN "invincible"
     ELSE IF inHitRange(w)
       THEN IF w.fighter[opponent].blocking THEN "blocked" ELSE "hit"
       ELSE "whiff"

\* hitDamage without the halving of a blocked hit
hitDamageUnhalved(blocking) == AttackDamage

\* const damage = 15; opponentFighter.blocking ? damage * 0.5 : damage
hitDamage(blocking) == IF blocking THEN BlockedDamage ELSE AttackDamage

\* currentCombo read before applyDamage has counted the hit
comboBeforeHit(w, w1) == w.gameState.comboCount

\* const currentCombo = gameStateData.comboCount, read in the world w1 that
\* applyDamage left of the world w
currentCombo(w, w1) == w1.gameState.comboCount

\* whiffCooldown without the penalty
whiffCooldownUnpunished(cooldown) == cooldown

\* attackerMutableFighter.attackCooldown += 0.3
whiffCooldown(cooldown) == cooldown + WhiffPenalty

\* hitCheckWasted that never returns early
hitCheckWastedNever(f) == FALSE

\* if (opponentFighter.invincibilityTimer > 0) return
hitCheckWasted(f) == f.invincibilityTimer > 0

\* checkAttackHit(attacker)
checkAttackHit(w, attacker) ==
  LET opponent == Opponent(attacker)
      opponentFighter == w.fighter[opponent]
  IN IF hitCheckWasted(opponentFighter)
       THEN w
       ELSE IF inHitRange(w)
         THEN IF opponentFighter.blocking
           THEN LET w1 == applyDamage(w, opponent, hitDamage(TRUE))
                IN [w1 EXCEPT !.fighter[opponent] =
                                 playAnimation(w1.fighter[opponent], "impact", BlockImpactAnimation)]
           ELSE LET w1 == applyDamage(w, opponent, hitDamage(FALSE))
                    pushDir == Sign(w.position[opponent] - w.position[attacker])
                    w2 == IF currentCombo(w, w1) >= KnockbackCombo
                            THEN [w1 EXCEPT !.fighter[opponent].knockbackDirX = pushDir,
                                            !.fighter[opponent].knockbackActive = TRUE,
                                            !.fighter[opponent].knockbackProgress = 0]
                            ELSE w1
                IN [w2 EXCEPT !.fighter[opponent].stunTimer = STUN_DURATION]
         ELSE [w EXCEPT !.fighter[attacker].attackCooldown =
                           whiffCooldown(w.fighter[attacker].attackCooldown)]

\* performAttack that schedules the hit check without animation lock or cooldown
performAttackUnlocked(w, attacker) ==
  LET present == \E i \in 1..Len(w.pendingHitChecks) : w.pendingHitChecks[i].entity = attacker
      entry == [entity |-> attacker, timer |-> HitCheckDelay]
  IN [w EXCEPT !.pendingHitChecks =
                   IF present
                     THEN [i \in 1..Len(w.pendingHitChecks) |->
                             IF w.pendingHitChecks[i].entity = attacker
                               THEN entry ELSE w.pendingHitChecks[i]]
                     ELSE Append(w.pendingHitChecks, entry)]

\* performAttack(attacker): Map.set keeps the place of a key that is present
performAttack(w, attacker) ==
  LET present == \E i \in 1..Len(w.pendingHitChecks) : w.pendingHitChecks[i].entity = attacker
      entry == [entity |-> attacker, timer |-> HitCheckDelay]
  IN [w EXCEPT !.fighter[attacker] =
                   [playAnimation(w.fighter[attacker], "attack", AttackAnimation) EXCEPT
                       !.attackCooldown = AttackCooldown],
               !.pendingHitChecks =
                   IF present
                     THEN [i \in 1..Len(w.pendingHitChecks) |->
                             IF w.pendingHitChecks[i].entity = attacker
                               THEN entry ELSE w.pendingHitChecks[i]]
                     ELSE Append(w.pendingHitChecks, entry)]

----------------------------------------------------------------------------
(* systems.ts: unifiedTimerSystem *)

\* countDown that leaves the timer as it is
countDownStuck(timer, d) == timer

\* countDown without the test for a running timer
countDownUnguarded(timer, d) == timer - d

\* if (timer > 0) timer -= dt
countDown(timer, d) == IF timer > 0 THEN timer - d ELSE timer

\* knockbackDone that never ends the knockback
knockbackDoneNever(progress, d) == FALSE

\* if (progress >= 1), after knockbackProgress += dt / KNOCKBACK_DURATION
knockbackDone(progress, d) == progress + d >= KNOCKBACK_DURATION

\* the timers of one fighter
fighterTimers(f, d) ==
  LET f1 == [f EXCEPT
               !.invincibilityTimer = countDown(f.invincibilityTimer, d),
               !.attackCooldown = countDown(f.attackCooldown, d),
               !.stunTimer = countDown(f.stunTimer, d)]
      f2 == IF f1.animationTimer > 0
              THEN IF f1.animationTimer - d <= 0
                     THEN resetToIdle(f1)
                     ELSE [f1 EXCEPT !.animationTimer = f1.animationTimer - d]
              ELSE f1
  IN IF f2.knockbackActive
       THEN IF knockbackDone(f2.knockbackProgress, d)
              THEN [f2 EXCEPT !.knockbackActive = FALSE, !.knockbackProgress = 0]
              ELSE [f2 EXCEPT !.knockbackProgress = f2.knockbackProgress + d]
       ELSE f2

\* the knockback slide of one fighter: knockbackProgress counts time units,
\* progress = min(1, knockbackProgress / KNOCKBACK_DURATION),
\* slide = (FORCE / DURATION) * (1 - progress)^3 * dt
knockbackSlide(f, x, d) ==
  LET k == Min(KNOCKBACK_DURATION, f.knockbackProgress + d)
      r == KNOCKBACK_DURATION - k
      slide == (KNOCKBACK_FORCE * r * r * r * d)
                  \div (KNOCKBACK_DURATION * KNOCKBACK_DURATION * KNOCKBACK_DURATION * KNOCKBACK_DURATION)
  IN IF f.knockbackActive THEN ClampX(x + f.knockbackDirX * slide) ELSE x

\* dueHitChecks that lets a timer of exactly 0 pass
dueHitChecksLate(entries, d) ==
  LET due == SelectSeq(entries, LAMBDA e : e.timer - d < 0)
  IN [i \in 1..Len(due) |-> due[i].entity]

\* the entities whose hit check is due in this frame, in the Map's order
dueHitChecks(entries, d) ==
  LET due == SelectSeq(entries, LAMBDA e : e.timer - d <= 0)
  IN [i \in 1..Len(due) |-> due[i].entity]

\* one record of the log: the hit check of attacker a in world w
hitCheckRecord(w, a) ==
  [attacker |-> a, target |-> Opponent(a), outcome |-> HitOutcome(w, a),
   before |-> w, after |-> checkAttackHit(w, a)]

\* the loop over pendingHitChecks.entries(): the Map has one key per fighter,
\* so at most two hit checks are due; the second runs in the world the first left
hitCheckLoop(w, due) ==
  IF Len(due) = 0 THEN <<>>
  ELSE IF Len(due) = 1 THEN <<hitCheckRecord(w, due[1])>>
  ELSE <<hitCheckRecord(w, due[1]), hitCheckRecord(checkAttackHit(w, due[1]), due[2])>>

\* unifiedTimerSystem(dt), with the hit checks it ran
timerSystemRun(w, d) ==
  LET w1 == [w EXCEPT
               !.fighter = [player |-> fighterTimers(w.fighter["player"], d),
                            enemy |-> fighterTimers(w.fighter["enemy"], d)],
               !.position = [player |-> knockbackSlide(w.fighter["player"], w.position["player"], d),
                             enemy |-> knockbackSlide(w.fighter["enemy"], w.position["enemy"], d)],
               !.pendingHitChecks =
                   SelectSeq([i \in 1..Len(w.pendingHitChecks) |->
                                [entity |-> w.pendingHitChecks[i].entity,
                                 timer |-> w.pendingHitChecks[i].timer - d]],
                             LAMBDA e : e.timer > 0)]
      log == hitCheckLoop(w1, dueHitChecks(w.pendingHitChecks, d))
  IN [world |-> IF Len(log) = 0 THEN w1 ELSE log[Len(log)].after, log |-> log]

unifiedTimerSystem(w, d) == timerSystemRun(w, d).world

----------------------------------------------------------------------------
(* systems.ts: gameStateSystem and resetMatch *)

\* the wall clock moves on by the frame time before the systems of a frame run
advanceClock(w, d) ==
  [w EXCEPT !.sinceLastHit = Min(w.sinceLastHit + d, COMBO_TIMEOUT + 1)]

\* countdownStep that never starts the fight
countdownStepNoStart(gs, d) ==
  IF gs.countdownTimer - d <= 0
    THEN [gs EXCEPT !.countdownTimer = 0]
    ELSE [gs EXCEPT !.countdownTimer = gs.countdownTimer - d]

\* the countdown branch: countdownTimer -= dt, and at <= 0 the fight starts
countdownStep(gs, d) ==
  IF gs.countdownTimer - d <= 0
    THEN [gs EXCEPT !.countdownTimer = 0, !.isMatchActive = TRUE]
    ELSE [gs EXCEPT !.countdownTimer = gs.countdownTimer - d]

\* comboExpired that never lets the combo run out
comboExpiredNever(w) == FALSE

\* gameState.comboCount > 0 && currentTime - gameState.lastHitTime > COMBO_TIMEOUT
comboExpired(w) == w.gameState.comboCount > 0 /\ w.sinceLastHit > COMBO_TIMEOUT

gameStateSystem(w, d) ==
  LET gs == w.gameState
  IN IF gs.countdownTimer > 0
       THEN [w EXCEPT !.gameState = countdownStep(gs, d)]
       ELSE IF comboExpired(w)
              THEN [w EXCEPT !.gameState.comboCount = 0]
              ELSE w

\* resetFighter that forgets the blocking flag and the stun timer
resetFighterPartly(f) ==
  [f EXCEPT !.health = f.maxHealth, !.animationTimer = 0, !.invincibilityTimer = 0,
            !.attackCooldown = 0,
            !.knockbackActive = FALSE, !.knockbackProgress = 0, !.knockbackDirX = 0,
            !.currentAnimation = "idle"]

\* the fields resetMatch writes of one fighter
resetFighter(f) ==
  [f EXCEPT !.health = f.maxHealth, !.animationTimer = 0, !.invincibilityTimer = 0,
            !.attackCooldown = 0, !.stunTimer = 0, !.blocking = FALSE,
            !.knockbackActive = FALSE, !.knockbackProgress = 0, !.knockbackDirX = 0,
            !.currentAnimation = "idle"]

resetMatch(w) ==
  [w EXCEPT !.fighter = [player |-> resetFighter(w.fighter["player"]),
                         enemy |-> resetFighter(w.fighter["enemy"])],
            !.position = [player |-> PlayerSpawnX, enemy |-> EnemySpawnX],
            !.gameState = [w.gameState EXCEPT !.isMatchActive = FALSE, !.winner = "",
                                    !.comboCount = 0, !.countdownTimer = CountdownStart,
                                    !.roundNumber = w.gameState.roundNumber + 1],
            !.sinceLastHit = COMBO_TIMEOUT + 1]

----------------------------------------------------------------------------
(* systems.ts: playerMovementSystem and enemyAISystem *)

\* the control state inputSystem.isPressed reports in one frame
Inputs == [moveX : {-1, 0, 1}, block : BOOLEAN, attack : BOOLEAN]

\* matchGate that closes only once a winner is set
matchGateOnKO(w) == w.gameState.winner # ""

\* matchGate that closes only during the countdown
matchGateCountdown(w) == w.gameState.countdownTimer > 0

\* the gate both systems start with
matchGate(w) == w.gameState.countdownTimer > 0 \/ ~w.gameState.isMatchActive

\* blockCancelled that leaves the flag as it is
blockKept(f) == f

\* fighter.blocking = false // Cancel block on attack
blockCancelled(f) == [f EXCEPT !.blocking = FALSE]

\* attackPressed that never sees the control
attackPressedNever(in) == FALSE

\* inputSystem.isPressed(InputAction.IA_PRIMARY): the control is down
attackPressed(in) == in.attack

\* attackReady that ignores the cooldown
attackReadyAlways(f) == TRUE

\* && fighter.attackCooldown <= 0
attackReady(f) == f.attackCooldown <= 0

\* actionLocked that looks at the stun timer only
actionLockedByStun(f) == f.stunTimer > 0

\* actionLocked that never locks
actionLockedNever(f) == FALSE

\* if (fighter.animationTimer > 0 || fighter.stunTimer > 0) return
actionLocked(f) == f.animationTimer > 0 \/ f.stunTimer > 0

\* movementAllowed that does not look at the block control
movementAllowedAlways(in) == TRUE

\* if (!isBlocking): can't move while blocking
movementAllowed(in) == ~in.block

\* the attack-recovery branch: block toggling only
playerRecovery(f, in) ==
  IF in.block /\ f.currentAnimation # "block"
    THEN playAnimation([f EXCEPT !.blocking = TRUE], "block", 0)
    ELSE IF ~in.block /\ f.currentAnimation = "block"
      THEN playAnimation([f EXCEPT !.blocking = FALSE], "idle", 0)
      ELSE f

\* block input, then movement and its animation
playerBlockAndMove(f, in) ==
  LET f1 == IF in.block
              THEN IF f.currentAnimation # "block"
                     THEN playAnimation([f EXCEPT !.blocking = TRUE], "block", 0)
                     ELSE [f EXCEPT !.blocking = TRUE]
              ELSE [f EXCEPT !.blocking = FALSE]
      moveX == IF movementAllowed(in) THEN in.moveX ELSE 0
  IN IF moveX # 0 /\ movementAllowed(in)
       THEN IF f1.currentAnimation # "walk" THEN playAnimation(f1, "walk", 0) ELSE f1
       ELSE IF f1.currentAnimation # "idle" /\ ~in.block
              THEN playAnimation(f1, "idle", 0)
              ELSE f1

playerMovementSystem(w, in, d) ==
  LET f == w.fighter["player"]
  IN IF matchGate(w) THEN w
     ELSE IF f.health <= 0 THEN w
     ELSE IF actionLocked(f) THEN w
     ELSE IF f.attackCooldown > RecoveryThreshold
       THEN [w EXCEPT !.fighter["player"] = playerRecovery(f, in)]
     ELSE
       LET w1 == [w EXCEPT
                    !.fighter["player"] = playerBlockAndMove(f, in),
                    !.position["player"] =
                        IF in.moveX # 0 /\ movementAllowed(in)
                          THEN ClampX(w.position["player"] + in.moveX * MOVEMENT_SPEED * d)
                          ELSE w.position["player"]]
       IN IF attackPressed(in) /\ attackReady(w1.fighter["player"])
            THEN performAttack([w1 EXCEPT !.fighter["player"] = blockCancelled(w1.fighter["player"])],
                               "player")
            ELSE w1

\* playerAboutToAttack that looks at the player's blocking flag instead
playerAboutToAttackUnguarded(w) == ~w.fighter["player"].blocking

\* playerFighterState.attackCooldown <= 0.3
playerAboutToAttack(w) == w.fighter["player"].attackCooldown <= AIBlockCooldown

\* the blocking decision of the AI
enemyBlockDecision(w, f, rand) ==
  LET shouldConsiderBlocking ==
        Distance(w) < AIBlockDistance /\ playerAboutToAttack(w)
  IN IF shouldConsiderBlocking /\ rand < AIBlockChance
       THEN IF f.currentAnimation # "block"
              THEN playAnimation([f EXCEPT !.blocking = TRUE], "block", 0)
              ELSE [f EXCEPT !.blocking = TRUE]
       ELSE IF rand < AIUnblockChance
              THEN [f EXCEPT !.blocking = FALSE]
              ELSE f

enemyAISystem(w, rand, d) ==
  LET f == w.fighter["enemy"]
      playerFighter == w.fighter["player"]
      distance == Distance(w)
  IN IF matchGate(w) THEN w
     ELSE IF f.health <= 0 \/ playerFighter.health <= 0 THEN w
     ELSE IF actionLocked(f) THEN w
     ELSE
       LET f1 == enemyBlockDecision(w, f, rand)
           w1 == [w EXCEPT !.fighter["enemy"] = f1]
           playerIsVulnerable == playerFighter.attackCooldown > AIVulnerableCooldown
       IN IF f1.blocking THEN w1
          ELSE IF distance > AIChaseDistance
            THEN [w1 EXCEPT
                    !.position["enemy"] =
                        ClampX(w.position["enemy"]
                                 + Sign(w.position["player"] - w.position["enemy"]) * ENEMY_SPEED * d),
                    !.fighter["enemy"] =
                        IF f1.currentAnimation # "walk"
                          THEN playAnimation(f1, "walk", 0) ELSE f1]
          ELSE IF distance <= AIAttackDistance
            THEN IF playerIsVulnerable /\ rand < AIPunishChance /\ attackReady(f1)
                   THEN performAttack(w1, "enemy")
                 ELSE IF rand < AIAttackChance /\ attackReady(f1)
                   THEN performAttack(w1, "enemy")
                 ELSE IF f1.currentAnimation # "idle" /\ f1.currentAnimation # "attack"
                   THEN [w1 EXCEPT !.fighter["enemy"] = playAnimation(f1, "idle", 0)]
                 ELSE w1
          ELSE w1

----------------------------------------------------------------------------------------------------------------------------------------
(* The state machine *)

----------------------------------------------------------------------------
(* menuState.ts, menuUi.tsx, menuSystem.ts *)

createMenuState ==
  [currentScreen |-> "title", playerCharacterId |-> "", enemyCharacterId |-> "",
   stageId |-> "", selectingPlayer |-> TRUE, loadingTimer |-> 0]

\* the VS MODE button of the title screen
handleVSMode(m) ==
  [m EXCEPT !.currentScreen = "characterSelect", !.selectingPlayer = TRUE]

\* a click on a portrait of the character grid
handleCharacterSelect(m, charId) ==
  IF charId \notin CHARACTERS THEN m
  ELSE IF m.selectingPlayer
    THEN [m EXCEPT !.playerCharacterId = charId, !.selectingPlayer = FALSE]
    ELSE [m EXCEPT !.enemyCharacterId = charId, !.currentScreen = "stageSelect"]

\* a click on a stage preview
handleStageSelect(m, stageId) ==
  [m EXCEPT !.stageId = stageId, !.currentScreen = "loading"]

\* loadingComplete that lets the battle start with the first frame
loadingCompleteAtOnce(timer) == TRUE

\* if (menuState.loadingTimer >= 2.0)
loadingComplete(timer) == timer >= LoadingDuration

\* menuFlowSystem: the loading screen timer
loadingStep(m, d) ==
  IF m.currentScreen = "loading"
    THEN IF loadingComplete(m.loadingTimer + d)
           THEN [m EXCEPT !.currentScreen = "battle", !.loadingTimer = 0]
           ELSE [m EXCEPT !.loadingTimer = m.loadingTimer + d]
    ELSE m

\* needsInitialization that does not look at the flag
needsInitializationAlways(m, initialized) == m.currentScreen = "battle"

\* if (menuState.currentScreen === 'battle' && !battleInitialized)
needsInitialization(m, initialized) == m.currentScreen = "battle" /\ ~initialized

\* initializeBattle finds the characters and the stage: it returns early otherwise
battleDataFound(m) ==
  /\ m.playerCharacterId \in CHARACTERS
  /\ m.enemyCharacterId \in CHARACTERS
  /\ m.stageId \in STAGES

\* the menu state returnToMainMenu writes
returnToMainMenu(m) ==
  [m EXCEPT !.currentScreen = "title", !.playerCharacterId = "", !.enemyCharacterId = "",
            !.stageId = "", !.selectingPlayer = TRUE, !.loadingTimer = 0]

----------------------------------------------------------------------------
(* The frames of a battle *)

Init ==
  /\ fighter = [player |-> createFighter(TRUE), enemy |-> createFighter(FALSE)]
  /\ position = [player |-> PlayerSpawnX, enemy |-> EnemySpawnX]
  /\ gameState = createGameState
  /\ sinceLastHit = COMBO_TIMEOUT + 1
  /\ pendingHitChecks = <<>>
  /\ pc = "gameState"
  /\ dt \in DTs
  /\ elapsed = 0
  /\ hitLog = <<>>
  /\ moves = 0
  /\ enemyAttacks = 0
  /\ initiatedAt = [player |-> 0, enemy |-> 0]
  /\ lastAttack = [player |-> NoAttack, enemy |-> NoAttack]
  /\ menuState = [createMenuState EXCEPT !.currentScreen = "battle",
                                         !.playerCharacterId = "bandit",
                                         !.enemyCharacterId = "goblin",
                                         !.stageId = "space",
                                         !.selectingPlayer = FALSE]
  /\ battleInitialized = TRUE
  /\ systemsRegistered = TRUE
  /\ battleEntities = TRUE
  /\ menuLog = [battles |-> 1, initializeBattle |-> 1, addSystem |-> 1,
                loadingTime |-> LoadingDuration]

\* the frame time of a tick is added to the time since the attack of q, and
\* the outcome of its hit check is noted when the tick has run it
TickedAttack(q, log, d) ==
  LET since == Min(lastAttack[q].since + d, SinceCap)
      mine == SelectSeq(log, LAMBDA rec : rec.attacker = q)
  IN IF since = SinceCap THEN NoAttack
     ELSE [since |-> since,
           outcome |-> IF Len(mine) = 0 THEN lastAttack[q].outcome ELSE mine[1].outcome]

TickAttacks(log, d) ==
  lastAttack' = [player |-> TickedAttack("player", log, d),
                 enemy |-> TickedAttack("enemy", log, d)]

\* the time since the attack of q starts again at 0 when the step of r has
\* called performAttack for q
NotedAttack(r, q, after) ==
  IF q = r /\ after.pendingHitChecks # pendingHitChecks
    THEN [lastAttack[q] EXCEPT !.since = 0]
    ELSE lastAttack[q]

NoteAttack(r, after) ==
  lastAttack' = [player |-> NotedAttack(r, "player", after),
                 enemy |-> NotedAttack(r, "enemy", after)]

\* the distance is noted when the step of r has called performAttack, and
\* forgotten in the step after the hit check has left the Map
NotedDistance(r, q, after) ==
  IF q = r /\ after.pendingHitChecks # pendingHitChecks THEN Distance(after)
  ELSE IF \E i \in 1..Len(after.pendingHitChecks) : after.pendingHitChecks[i].entity = q
    THEN initiatedAt[q]
    ELSE 0

NoteInitiation(r, after) ==
  initiatedAt' = [player |-> NotedDistance(r, "player", after),
                  enemy |-> NotedDistance(r, "enemy", after)]

SetWorld(w) ==
  /\ fighter' = w.fighter
  /\ position' = w.position
  /\ gameState' = w.gameState
  /\ sinceLastHit' = w.sinceLastHit
  /\ pendingHitChecks' = w.pendingHitChecks

\* a fighter lies in its die lock for longer than the model follows
OverTime == \E r \in Roles :
              /\ fighter[r].currentAnimation = "die"
              /\ fighter[r].animationTimer <= DieLock - MaxOverTime

\* engine.addSystem(gameStateSystem): the first system of a frame
GameStateSystem ==
  /\ pc = "gameState"
  /\ battleEntities
  /\ ~OverTime
  /\ \E d \in DTs :
       /\ dt' = d
       /\ SetWorld(gameStateSystem(advanceClock(World, d), d))
       /\ elapsed' = Min(elapsed + d, CountdownStart)
  /\ pc' = "timer"
  /\ UNCHANGED <<hitLog, moves, enemyAttacks, initiatedAt, lastAttack>>
  /\ UNCHANGED menuVars

\* engine.addSystem(unifiedTimerSystem)
UnifiedTimerSystem ==
  /\ pc = "timer"
  /\ \E run \in {timerSystemRun(World, dt)} :
       /\ SetWorld(run.world)
       /\ hitLog' = run.log
       /\ TickAttacks(run.log, dt)
  /\ pc' = "player"
  /\ UNCHANGED <<dt, elapsed, moves, enemyAttacks, initiatedAt>>
  /\ UNCHANGED menuVars

\* engine.addSystem(playerMovementSystem), with the controls the human holds
PlayerMovementSystem ==
  /\ pc = "player"
  /\ \E in \in Inputs :
     \E after \in {playerMovementSystem(World, in, dt)} :
     \E m \in {IF after.position # position THEN 1 ELSE 0} :
       /\ moves + m <= MaxMoves
       /\ SetWorld(after)
       /\ moves' = moves + m
       /\ NoteInitiation("player", after)
       /\ NoteAttack("player", after)
  /\ pc' = "enemy"
  /\ hitLog' = <<>>
  /\ UNCHANGED <<dt, elapsed, enemyAttacks>>
  /\ UNCHANGED menuVars

\* engine.addSystem(enemyAISystem), with the value Math.random() returns
EnemyAISystem ==
  /\ pc = "enemy"
  /\ \E rand \in Rands :
     \E after \in {enemyAISystem(World, rand, dt)} :
     \E a \in {IF after.pendingHitChecks # pendingHitChecks THEN 1 ELSE 0} :
       /\ enemyAttacks + a <= MaxEnemyAttacks
       /\ SetWorld(after)
       /\ enemyAttacks' = enemyAttacks + a
       /\ NoteInitiation("enemy", after)
       /\ NoteAttack("enemy", after)
  /\ pc' = "gameState"
  /\ UNCHANGED <<dt, elapsed, hitLog, moves>>
  /\ UNCHANGED menuVars

\* the RESTART MATCH button, shown on the KO screen
ResetMatch ==
  /\ pc = "gameState"
  /\ ~gameState.isMatchActive
  /\ gameState.winner # ""
  /\ gameState.roundNumber < MaxRound
  /\ SetWorld(resetMatch(World))
  /\ elapsed' = 0
  /\ moves' = 0
  /\ enemyAttacks' = 0
  /\ lastAttack' = [player |-> NoAttack, enemy |-> NoAttack]
  /\ UNCHANGED <<pc, dt, hitLog, initiatedAt>>
  /\ UNCHANGED menuVars

Next ==
  \/ GameStateSystem
  \/ UnifiedTimerSystem
  \/ PlayerMovementSystem
  \/ EnemyAISystem
  \/ ResetMatch

Spec == Init /\ [][Next]_vars

----------------------------------------------------------------------------
(* The same frames with a human who walks to the left as far as the wall and
   never blocks, against an AI that draws few values *)

ArenaInputs == {in \in Inputs : ~in.block /\ in.moveX <= 0}

ArenaRands == {20, 500}

\* engine.addSystem(playerMovementSystem), without a budget of moves
ArenaPlayerMovementSystem ==
  /\ pc = "player"
  /\ \E in \in ArenaInputs :
     \E after \in {playerMovementSystem(World, in, dt)} :
       /\ SetWorld(after)
       /\ NoteInitiation("player", after)
       /\ NoteAttack("player", after)
  /\ pc' = "enemy"
  /\ hitLog' = <<>>
  /\ UNCHANGED <<dt, elapsed, moves, enemyAttacks>>
  /\ UNCHANGED menuVars

\* engine.addSystem(enemyAISystem)
ArenaEnemyAISystem ==
  /\ pc = "enemy"
  /\ \E rand \in ArenaRands :
     \E after \in {enemyAISystem(World, rand, dt)} :
     \E a \in {IF after.pendingHitChecks # pendingHitChecks THEN 1 ELSE 0} :
       /\ enemyAttacks + a <= MaxEnemyAttacks
       /\ SetWorld(after)
       /\ enemyAttacks' = enemyAttacks + a
       /\ NoteInitiation("enemy", after)
       /\ NoteAttack("enemy", after)
  /\ pc' = "gameState"
  /\ UNCHANGED <<dt, elapsed, hitLog, moves>>
  /\ UNCHANGED menuVars

ArenaNext ==
  \/ GameStateSystem
  \/ UnifiedTimerSystem
  \/ ArenaPlayerMovementSystem
  \/ ArenaEnemyAISystem
  \/ ResetMatch

SpecArena == Init /\ [][ArenaNext]_vars

----------------------------------------------------------------------------
(* The same frames with a human who keeps the attack control down from the
   first frame on *)

HoldInputs == {in \in Inputs : in.attack}

\* engine.addSystem(playerMovementSystem), the attack control held
HoldPlayerMovementSystem ==
  /\ pc = "player"
  /\ \E in \in HoldInputs :
     \E after \in {playerMovementSystem(World, in, dt)} :
     \E m \in {IF after.position # position THEN 1 ELSE 0} :
       /\ moves + m <= MaxMoves
       /\ SetWorld(after)
       /\ moves' = moves + m
       /\ NoteInitiation("player", after)
       /\ NoteAttack("player", after)
  /\ pc' = "enemy"
  /\ hitLog' = <<>>
  /\ UNCHANGED <<dt, elapsed, enemyAttacks>>
  /\ UNCHANGED menuVars

HoldNext ==
  \/ GameStateSystem
  \/ UnifiedTimerSystem
  \/ HoldPlayerMovementSystem
  \/ EnemyAISystem
  \/ ResetMatch

SpecHold == Init /\ [][HoldNext]_vars

----------------------------------------------------------------------------
(* One round between a human who stands at the spawn point and uses the attack
   control only, and an AI that starts as many attacks as it draws *)

BrawlInputs == {in \in Inputs : ~in.block /\ in.moveX = 0}

BrawlRands == {20, 500}

\* engine.addSystem(playerMovementSystem), the attack control only
BrawlPlayerMovementSystem ==
  /\ pc = "player"
  /\ \E in \in BrawlInputs :
     \E after \in {playerMovementSystem(World, in, dt)} :
       /\ SetWorld(after)
       /\ NoteInitiation("player", after)
       /\ NoteAttack("player", after)
  /\ pc' = "enemy"
  /\ hitLog' = <<>>
  /\ UNCHANGED <<dt, elapsed, moves, enemyAttacks>>
  /\ UNCHANGED menuVars

\* engine.addSystem(enemyAISystem), without a budget of attacks
BrawlEnemyAISystem ==
  /\ pc = "enemy"
  /\ \E rand \in BrawlRands :
     \E after \in {enemyAISystem(World, rand, dt)} :
       /\ SetWorld(after)
       /\ NoteInitiation("enemy", after)
       /\ NoteAttack("enemy", after)
  /\ pc' = "gameState"
  /\ UNCHANGED <<dt, elapsed, hitLog, moves, enemyAttacks>>
  /\ UNCHANGED menuVars

BrawlNext ==
  \/ GameStateSystem
  \/ UnifiedTimerSystem
  \/ BrawlPlayerMovementSystem
  \/ BrawlEnemyAISystem

SpecBrawl == Init /\ [][BrawlNext]_vars

----------------------------------------------------------------------------
(* The scene from main(): the menus, and battles fought by a human who keeps
   the attack control down and leaves the battle by the MAIN MENU button *)

\* the fighters and the game state initializeBattle creates
BattleCreated ==
  /\ SetWorld([fighter |-> [player |-> createFighter(TRUE), enemy |-> createFighter(FALSE)],
               position |-> [player |-> PlayerSpawnX, enemy |-> EnemySpawnX],
               gameState |-> createGameState,
               sinceLastHit |-> COMBO_TIMEOUT + 1,
               pendingHitChecks |-> <<>>])
  /\ elapsed' = 0
  /\ hitLog' = <<>>
  /\ moves' = 0
  /\ enemyAttacks' = 0
  /\ initiatedAt' = [player |-> 0, enemy |-> 0]
  /\ lastAttack' = [player |-> NoAttack, enemy |-> NoAttack]

\* main(): createMenuState, and no fighter yet
MenuInit ==
  /\ fighter = [player |-> createFighter(TRUE), enemy |-> createFighter(FALSE)]
  /\ position = [player |-> PlayerSpawnX, enemy |-> EnemySpawnX]
  /\ gameState = createGameState
  /\ sinceLastHit = COMBO_TIMEOUT + 1
  /\ pendingHitChecks = <<>>
  /\ pc = "gameState"
  /\ dt \in DTs
  /\ elapsed = 0
  /\ hitLog = <<>>
  /\ moves = 0
  /\ enemyAttacks = 0
  /\ initiatedAt = [player |-> 0, enemy |-> 0]
  /\ lastAttack = [player |-> NoAttack, enemy |-> NoAttack]
  /\ menuState = createMenuState
  /\ battleInitialized = FALSE
  /\ systemsRegistered = FALSE
  /\ battleEntities = FALSE
  /\ menuLog = [battles |-> 0, initializeBattle |-> 0, addSystem |-> 0, loadingTime |-> 0]

\* engine.addSystem(menuFlowSystem): the first system of every frame
MenuFlowSystem ==
  /\ pc = "gameState"
  /\ \E d \in DTs :
     \E m \in {loadingStep(menuState, d)} :
     \E init \in {needsInitialization(m, battleInitialized)} :
     \E found \in {init /\ battleDataFound(m)} :
       /\ dt' = d
       /\ menuState' = m
       /\ battleInitialized' = (battleInitialized \/ init)
       /\ systemsRegistered' = (systemsRegistered \/ found)
       /\ battleEntities' = IF init THEN found ELSE battleEntities
       /\ menuLog' =
            [battles |-> menuLog.battles
                           + (IF m.currentScreen = "battle" /\ menuState.currentScreen # "battle"
                                THEN 1 ELSE 0),
             initializeBattle |-> menuLog.initializeBattle + (IF init THEN 1 ELSE 0),
             addSystem |-> menuLog.addSystem
                             + (IF found /\ ~systemsRegistered THEN 1 ELSE 0),
             loadingTime |-> IF menuState.currentScreen = "loading"
                               THEN menuLog.loadingTime + d ELSE menuLog.loadingTime]
       /\ IF found THEN BattleCreated
          ELSE UNCHANGED <<fighter, position, gameState, sinceLastHit, pendingHitChecks,
                           elapsed, hitLog, moves, enemyAttacks, initiatedAt, lastAttack>>
  /\ UNCHANGED pc

\* TitleScreen: the VS MODE button
HandleVSMode ==
  /\ pc = "gameState"
  /\ menuState.currentScreen = "title"
  /\ menuLog.battles < MaxBattles
  /\ menuState' = handleVSMode(menuState)
  /\ UNCHANGED <<fighter, position, gameState, sinceLastHit, pendingHitChecks,
                  pc, dt, elapsed, hitLog, moves, enemyAttacks, initiatedAt, lastAttack,
                  battleInitialized, systemsRegistered, battleEntities, menuLog>>

\* CharacterSelectScreen: a click on a portrait
HandleCharacterSelect ==
  /\ pc = "gameState"
  /\ menuState.currentScreen = "characterSelect"
  /\ \E charId \in MenuCharacters : menuState' = handleCharacterSelect(menuState, charId)
  /\ UNCHANGED <<fighter, position, gameState, sinceLastHit, pendingHitChecks,
                  pc, dt, elapsed, hitLog, moves, enemyAttacks, initiatedAt, lastAttack,
                  battleInitialized, systemsRegistered, battleEntities, menuLog>>

\* StageSelectScreen: a click on a stage preview
HandleStageSelect ==
  /\ pc = "gameState"
  /\ menuState.currentScreen = "stageSelect"
  /\ \E stageId \in MenuStages : menuState' = handleStageSelect(menuState, stageId)
  /\ menuLog' = [menuLog EXCEPT !.loadingTime = 0]
  /\ UNCHANGED <<fighter, position, gameState, sinceLastHit, pendingHitChecks,
                  pc, dt, elapsed, hitLog, moves, enemyAttacks, initiatedAt, lastAttack,
                  battleInitialized, systemsRegistered, battleEntities>>

\* the MAIN MENU button of the KO screen: the fighters and the game state are
\* removed, which the model writes as the values they are created with
ReturnToMainMenu ==
  /\ pc = "gameState"
  /\ menuState.currentScreen = "battle"
  /\ ~gameState.isMatchActive
  /\ gameState.winner # ""
  /\ menuState' = returnToMainMenu(menuState)
  /\ battleInitialized' = FALSE
  /\ battleEntities' = FALSE
  /\ BattleCreated
  /\ UNCHANGED <<pc, dt, systemsRegistered, menuLog>>

MenuNext ==
  \/ MenuFlowSystem
  \/ HandleVSMode
  \/ HandleCharacterSelect
  \/ HandleStageSelect
  \/ ReturnToMainMenu
  \/ GameStateSystem
  \/ UnifiedTimerSystem
  \/ HoldPlayerMovementSystem
  \/ EnemyAISystem

SpecMenu == MenuInit /\ [][MenuNext]_vars

----------------------------------------------------------------------------
(* Claims *)

\* the step is not the restart button's
SameRound == gameState'.roundNumber = gameState.roundNumber

\* the hit checks of the log that connected
Landed == {i \in 1..Len(hitLog) : hitLog[i].outcome \in {"hit", "blocked"}}

\* C1: every combatant's health stays within 0 .. maxHealth
C1_HealthInRange ==
  \A r \in Roles : fighter[r].health >= 0 /\ fighter[r].health <= fighter[r].maxHealth

\* C1 witness: a hit larger than the health that was left has floored it at 0
C1_FlooredHit ==
  \E i \in Landed :
    /\ hitLog[i].before.fighter[hitLog[i].target].health < AttackDamage
    /\ hitLog[i].outcome = "hit"
    /\ fighter[hitLog[i].target].health = 0

\* C2: once a winner is set, no combatant's health changes until resetMatch
\* runs (no post-death attacks)
C2_NoDamageAfterKO ==
  [][(gameState.winner # "" /\ SameRound)
       => \A r \in Roles : fighter'[r].health = fighter[r].health]_vars

\* C2 witness: the hit check of an attacker who is already knocked out lands
C2_PostDeathHit ==
  \E i \in Landed :
    /\ hitLog[i].before.fighter[hitLog[i].attacker].health = 0
    /\ hitLog[i].before.gameState.winner # ""
    /\ hitLog[i].after.fighter[hitLog[i].target].health
         < hitLog[i].before.fighter[hitLog[i].target].health

\* this hit check has activated knockback on its target (a knockback that was
\* already running has a progress above 0 by the time hit checks run)
KnockbackActivated(rec) ==
  /\ rec.after.fighter[rec.target].knockbackActive
  /\ rec.after.fighter[rec.target].knockbackProgress = 0

\* C3 as stated: knockback is activated on an unblocked hit if and only if the
\* combo count before the hit's own bookkeeping was >= 3
C3_KnockbackOnPriorCombo ==
  \A i \in Landed :
    hitLog[i].outcome = "hit"
      => (KnockbackActivated(hitLog[i])
            <=> hitLog[i].before.gameState.comboCount >= KnockbackCombo)

\* C3 amended: knockback is activated on an unblocked hit if and only if the
\* combo count after the hit's own bookkeeping is >= 3, that is, the hit is
\* the 3rd or a later hit of a chain inside the combo window
C3_KnockbackOnThirdHit ==
  \A i \in Landed :
    hitLog[i].outcome = "hit"
      => (KnockbackActivated(hitLog[i])
            <=> /\ hitLog[i].before.sinceLastHit < COMBO_TIMEOUT
                /\ hitLog[i].before.gameState.comboCount + 1 >= KnockbackCombo)

\* C3 witness: the 3rd hit of a chain (combo count 2 before it) knocks back
C3_ThirdHitKnocksBack ==
  \E i \in Landed :
    /\ hitLog[i].outcome = "hit"
    /\ hitLog[i].before.gameState.comboCount = KnockbackCombo - 1
    /\ hitLog[i].before.sinceLastHit < COMBO_TIMEOUT
    /\ KnockbackActivated(hitLog[i])

\* C4: a combatant whose health is 0 plays the die animation
C4_DeadMeansDie ==
  \A r \in Roles : fighter[r].health = 0 => fighter[r].currentAnimation = "die"

\* C5: die is sticky until resetMatch, and the expiry of the animation lock
\* never turns a combatant with health 0 to idle
C5_DieIsSticky ==
  [][SameRound
       => \A r \in Roles :
            /\ fighter[r].currentAnimation = "die" => fighter'[r].currentAnimation = "die"
            /\ (fighter[r].health = 0 /\ fighter[r].currentAnimation # "idle")
                 => fighter'[r].currentAnimation # "idle"]_vars

C7_CountdownFreezes ==
  [][(gameState.countdownTimer > 0 /\ pc \in {"player", "enemy"})
       => /\ fighter' = fighter
          /\ position' = position
          /\ pendingHitChecks' = pendingHitChecks]_vars

\* C7 witness: the policy step has run in a frame of the countdown of a
\* second round, after the human-input step of that frame
C7_CountdownFrame ==
  /\ pc = "gameState"
  /\ gameState.countdownTimer > 0
  /\ elapsed > 0
  /\ gameState.roundNumber > 1

\* C8: isMatchActive is false while the countdown runs, becomes true exactly
\* in the frame in which the countdown reaches 0 (3.0 s of frame time after
\* the start or the reset), and then stays true until a knockout
C8_ActiveFromCountdownEnd ==
  /\ [](gameState.countdownTimer > 0 => ~gameState.isMatchActive)
  /\ []((gameState.countdownTimer > 0) <=> (elapsed < CountdownStart))
  /\ [][/\ (~gameState.isMatchActive /\ gameState'.isMatchActive)
             => (gameState.countdownTimer > 0 /\ gameState'.countdownTimer = 0)
        /\ (gameState.countdownTimer > 0 /\ gameState'.countdownTimer <= 0)
             => gameState'.isMatchActive
        /\ (gameState.isMatchActive /\ ~gameState'.isMatchActive)
             => \E r \in Roles : fighter[r].health > 0 /\ fighter'[r].health = 0]_vars

\* C8 witness: the match of a second round is active right after its countdown
C8_SecondRoundStarted ==
  /\ gameState.isMatchActive
  /\ gameState.roundNumber > 1
  /\ pc = "timer"
  /\ fighter["enemy"].health = MaxHealth

\* C9: applyDamage on a target whose invincibility timer is above 0 changes
\* nothing: health, combo count, last hit time, animation and timers stay
C9_InvincibleNoOp ==
  \A r \in Roles : \A amount \in {BlockedDamage, AttackDamage} :
    fighter[r].invincibilityTimer > 0 => applyDamage(World, r, amount) = World

\* C9 witness: a combatant that has just been hit is invincible
C9_Invincible ==
  \E i \in Landed :
    /\ fighter[hitLog[i].target].invincibilityTimer > 0
    /\ fighter[hitLog[i].target].health > 0

\* C10: an unblocked hit takes exactly 15 and a blocked hit exactly 7.5 off
\* the target's health (floored at 0), and a blocked hit neither activates
\* knockback nor sets the stun timer
C10_HitDamage ==
  \A i \in Landed :
    LET before == hitLog[i].before.fighter[hitLog[i].target]
        after == hitLog[i].after.fighter[hitLog[i].target]
    IN /\ hitLog[i].outcome = "hit"
            => after.health = Max(0, before.health - AttackDamage)
       /\ hitLog[i].outcome = "blocked"
            => /\ after.health = Max(0, before.health - BlockedDamage)
               /\ after.knockbackActive = before.knockbackActive
               /\ after.knockbackProgress = before.knockbackProgress
               /\ after.knockbackDirX = before.knockbackDirX
               /\ after.stunTimer = before.stunTimer

\* C10 witness: a blocked hit lands as the 3rd or a later hit of a chain
C10_BlockedComboHit ==
  \E i \in Landed :
    /\ hitLog[i].outcome = "blocked"
    /\ hitLog[i].before.sinceLastHit < COMBO_TIMEOUT
    /\ hitLog[i].before.gameState.comboCount >= KnockbackCombo - 1

\* the hit checks of the log, whatever their outcome
Resolved == 1..Len(hitLog)

\* C11: of two attacks that resolve in the same state of the attacker, one
\* as a miss (distance >= 2.0) and one as a hit, the miss leaves the attacker
\* an attackCooldown exactly 0.3 s larger: a hit check that connects leaves
\* the attacker's cooldown as it was, one that whiffs adds 0.3 s to it
C11_WhiffPenalty ==
  \A i \in Resolved :
    LET before == hitLog[i].before.fighter[hitLog[i].attacker].attackCooldown
        after == hitLog[i].after.fighter[hitLog[i].attacker].attackCooldown
    IN /\ hitLog[i].outcome \in {"hit", "blocked"} => after = before
       /\ hitLog[i].outcome = "whiff" => after = before + WhiffPenalty

\* C11 witness: an attack started out of range has whiffed
C11_Whiffed ==
  \E i \in Resolved :
    /\ hitLog[i].outcome = "whiff"
    /\ Distance(hitLog[i].before) >= HIT_RANGE
    /\ fighter[hitLog[i].attacker].attackCooldown
         = AttackCooldown - HitCheckDelay + WhiffPenalty

\* the hit checks of the log that resolve an attack started in the running
\* fight between two combatants at full health
FirstExchange ==
  {i \in Resolved : /\ hitLog[i].before.gameState.countdownTimer = 0
                    /\ \A r \in Roles : hitLog[i].before.fighter[r].health = MaxHealth}

\* C12 as stated: between two combatants at full health, when the attack
\* resolves after its 0.4 s delay the attacker's attackCooldown is 0.8 s after
\* a hit (opponent at 85 health with 0.3 s of invincibility) and 1.1 s after
\* a miss (opponent still at 100)
C12_CooldownAtResolution ==
  \A i \in FirstExchange :
    LET attacker == hitLog[i].after.fighter[hitLog[i].attacker]
        opponent == hitLog[i].after.fighter[hitLog[i].target]
    IN /\ hitLog[i].outcome = "hit"
            => /\ attacker.attackCooldown = AttackCooldown
               /\ opponent.health = MaxHealth - AttackDamage
               /\ opponent.invincibilityTimer = InvincibilityDuration
       /\ hitLog[i].outcome = "whiff"
            => /\ attacker.attackCooldown = AttackCooldown + WhiffPenalty
               /\ opponent.health = MaxHealth

\* C12 amended: the 0.4 s of the delay have been counted off the cooldown by
\* the time the attack resolves, so the attacker's attackCooldown is
\* 0.8 - 0.4 = 0.4 s after a hit (opponent at 85 health with 0.3 s of
\* invincibility) and 0.4 + 0.3 = 0.7 s after a miss (opponent still at 100)
C12_CooldownLessDelay ==
  \A i \in FirstExchange :
    LET attacker == hitLog[i].after.fighter[hitLog[i].attacker]
        opponent == hitLog[i].after.fighter[hitLog[i].target]
    IN /\ hitLog[i].outcome = "hit"
            => /\ attacker.attackCooldown = AttackCooldown - HitCheckDelay
               /\ opponent.health = MaxHealth - AttackDamage
               /\ opponent.invincibilityTimer = InvincibilityDuration
       /\ hitLog[i].outcome = "whiff"
            => /\ attacker.attackCooldown = AttackCooldown - HitCheckDelay + WhiffPenalty
               /\ opponent.health = MaxHealth

\* C12 witness: the first attack of a fight has landed in range on an
\* opponent at full health
C12_FirstHit ==
  \E i \in FirstExchange :
    /\ hitLog[i].outcome = "hit"
    /\ Distance(hitLog[i].before) < HIT_RANGE
    /\ fighter[hitLog[i].target].health = MaxHealth - AttackDamage
    /\ fighter[hitLog[i].attacker].attackCooldown = AttackCooldown - HitCheckDelay

\* C13: resetMatch, called in any state, leaves both combatants at full
\* health, idle, with animation, cooldown, invincibility and stun timers 0,
\* not blocking, without knockback and at their spawn positions, and the
\* match with a 3.0 s countdown, inactive, without winner, with combo count
\* 0 and the round number one higher
C13_ResetMatch ==
  LET after == resetMatch(World)
  IN /\ \A r \in Roles :
          /\ after.fighter[r].health = MaxHealth
          /\ after.fighter[r].currentAnimation = "idle"
          /\ after.fighter[r].animationTimer = 0
          /\ after.fighter[r].attackCooldown = 0
          /\ after.fighter[r].invincibilityTimer = 0
          /\ after.fighter[r].stunTimer = 0
          /\ ~after.fighter[r].blocking
          /\ ~after.fighter[r].knockbackActive
          /\ after.fighter[r].knockbackProgress = 0
     /\ after.position["player"] = PlayerSpawnX
     /\ after.position["enemy"] = EnemySpawnX
     /\ after.gameState.countdownTimer = CountdownStart
     /\ ~after.gameState.isMatchActive
     /\ after.gameState.winner = ""
     /\ after.gameState.comboCount = 0
     /\ after.gameState.roundNumber = gameState.roundNumber + 1

\* C13 witness: the restart button is about to be pressed on a knocked out,
\* blocking enemy that has been pushed from its spawn position
C13_ResetAfterKO ==
  /\ pc = "gameState"
  /\ gameState.winner = "player"
  /\ fighter["enemy"].health = 0
  /\ fighter["enemy"].blocking
  /\ position["enemy"] # EnemySpawnX
  /\ gameState.comboCount > 0
  /\ gameState.roundNumber < MaxRound

MatchEnded == gameState.winner # "" /\ ~gameState.isMatchActive

\* C16: once the match has ended and until resetMatch, the human-input step
\* and the policy step are dropped: whatever the controls and the random
\* draw, the step leaves positions, animations, blocking flags, cooldowns and
\* the pending hit checks as they are
C16_DroppedAfterEnd ==
  [][MatchEnded =>
       /\ \A in \in Inputs : playerMovementSystem(World, in, dt) = World
       /\ \A rand \in Rands : enemyAISystem(World, rand, dt) = World
       /\ pc \in {"player", "enemy"} =>
             /\ position' = position
             /\ pendingHitChecks' = pendingHitChecks
             /\ \A r \in Roles :
                  /\ fighter'[r].currentAnimation = fighter[r].currentAnimation
                  /\ fighter'[r].blocking = fighter[r].blocking
                  /\ fighter'[r].attackCooldown = fighter[r].attackCooldown]_vars

\* C16 witness: a frame after the knockout has run its input and policy
\* steps, and the winner could attack again if the match were active
C16_FramesAfterKO ==
  /\ MatchEnded
  /\ pc = "gameState"
  /\ \E r \in Roles :
       /\ fighter[r].currentAnimation = "die"
       /\ fighter[r].animationTimer <= DieLock - dt
       /\ fighter[Opponent(r)].health > 0
       /\ fighter[Opponent(r)].attackCooldown <= 0
       /\ fighter[Opponent(r)].animationTimer = 0

\* the fighter whose system runs in the step from this state
Stepping(r) == pc = (IF r = "player" THEN "player" ELSE "enemy")

\* the step from this state initiates an attack of r
Initiates(r) ==
  /\ Stepping(r)
  /\ \/ pendingHitChecks' # pendingHitChecks
     \/ fighter'[r].attackCooldown # fighter[r].attackCooldown
     \/ fighter'[r].currentAnimation = "attack" /\ fighter[r].currentAnimation # "attack"

HasPending(entries, r, t) ==
  \E i \in 1..Len(entries) : entries[i] = [entity |-> r, timer |-> t]

\* C17: an attack is initiated only with attackCooldown <= 0, health > 0 and
\* the match active; the initiation sets the attack animation, 0.8 s of
\* animation lock, 0.8 s of cooldown and a pending hit check of 0.4 s
C17_InitiateAttack ==
  [][\A r \in Roles :
       Initiates(r) =>
         /\ fighter[r].attackCooldown <= 0
         /\ fighter[r].health > 0
         /\ gameState.isMatchActive
         /\ fighter'[r].currentAnimation = "attack"
         /\ fighter'[r].animationTimer = AttackAnimation
         /\ fighter'[r].attackCooldown = AttackCooldown
         /\ HasPending(pendingHitChecks', r, HitCheckDelay)]_vars

\* C17 witness: the policy has just initiated an attack while the attack the
\* human initiated a frame earlier is pending
C17_BothInitiated ==
  /\ pc = "gameState"
  /\ fighter["enemy"].currentAnimation = "attack"
  /\ fighter["enemy"].animationTimer = AttackAnimation
  /\ fighter["enemy"].attackCooldown = AttackCooldown
  /\ HasPending(pendingHitChecks, "enemy", HitCheckDelay)
  /\ HasPending(pendingHitChecks, "player", HitCheckDelay - dt)
  /\ fighter["player"].attackCooldown = AttackCooldown - dt

PendingOf(entries, r) == {i \in 1..Len(entries) : entries[i].entity = r}

\* C18: each fighter has zero or one pending hit check, and no attack is
\* initiated for a fighter whose hit check is still pending
C18_OnePendingAttack ==
  [][\A r \in Roles :
       /\ Cardinality(PendingOf(pendingHitChecks, r)) <= 1
       /\ Cardinality(PendingOf(pendingHitChecks', r)) <= 1
       /\ Initiates(r) => PendingOf(pendingHitChecks, r) = {}]_vars

\* C18 witness: the input step and the policy step have both run in a frame
\* in which the hit checks of both fighters were pending
C18_BothPending ==
  /\ pc = "gameState"
  /\ Len(pendingHitChecks) = 2
  /\ HasPending(pendingHitChecks, "player", HitCheckDelay - dt)
  /\ HasPending(pendingHitChecks, "enemy", HitCheckDelay - dt)

\* the hit checks of attacker r that the timer step from this state runs
ChecksRun(r) == {i \in 1..Len(hitLog') : hitLog'[i].attacker = r}

\* C19: a pending hit check holds the 0.4 s less the frame times since the
\* initiation; the tick that brings it to 0 or below removes it and runs the
\* hit check once, an earlier tick only counts it down, no other step removes
\* it or runs a hit check, and a fighter without a pending hit check gets none
C19_ResolvedOnce ==
  [][\A r \in Roles :
       LET idx == PendingOf(pendingHitChecks, r)
       IN IF pc = "timer"
            THEN IF idx = {}
                   THEN ChecksRun(r) = {} /\ PendingOf(pendingHitChecks', r) = {}
                   ELSE \A i \in idx :
                          LET t == pendingHitChecks[i].timer
                          IN /\ 0 < t /\ t <= HitCheckDelay
                             /\ IF dt >= t
                                  THEN /\ Cardinality(ChecksRun(r)) = 1
                                       /\ PendingOf(pendingHitChecks', r) = {}
                                  ELSE /\ ChecksRun(r) = {}
                                       /\ HasPending(pendingHitChecks', r, t - dt)
            ELSE /\ hitLog' = <<>> \/ hitLog' = hitLog
                 /\ \A i \in idx : HasPending(pendingHitChecks', r, pendingHitChecks[i].timer)]_vars

\* C19 witness: one tick has resolved the hit checks of both fighters, each
\* once, 0.4 s after their initiation
C19_BothResolved ==
  /\ pc = "player"
  /\ Len(hitLog) = 2
  /\ hitLog[1].attacker # hitLog[2].attacker
  /\ pendingHitChecks = <<>>
  /\ \A i \in 1..2 :
       hitLog[i].before.fighter[hitLog[i].attacker].attackCooldown = AttackCooldown - HitCheckDelay

\* the hit check of the record connected: applyDamage has run on the target
Connected(rec) ==
  /\ rec.after.fighter[rec.target].invincibilityTimer = InvincibilityDuration
  /\ rec.after.sinceLastHit = 0
  /\ rec.after.fighter[rec.target].health =
        Max(0, rec.before.fighter[rec.target].health
                 - (IF rec.before.fighter[rec.target].blocking THEN BlockedDamage ELSE AttackDamage))
  /\ rec.after.fighter[rec.attacker].attackCooldown = rec.before.fighter[rec.attacker].attackCooldown

\* the hit check of the record missed: the attacker pays the whiff penalty
Whiffed(rec) ==
  /\ rec.after.fighter[rec.target] = rec.before.fighter[rec.target]
  /\ rec.after.gameState = rec.before.gameState
  /\ rec.after.fighter[rec.attacker].attackCooldown =
        rec.before.fighter[rec.attacker].attackCooldown + WhiffPenalty

\* C20: the distance when the hit check runs decides between hit and miss,
\* whatever the distance was when the attack was initiated: against a target
\* that is not invincible the check connects if the distance is < 2.0 then,
\* also for an attack initiated out of range, and whiffs if it is >= 2.0
\* then, also for an attack initiated in range
C20_DistanceAtResolution ==
  \A i \in Resolved :
    LET rec == hitLog[i]
        far == initiatedAt[rec.attacker] >= HIT_RANGE
    IN rec.before.fighter[rec.target].invincibilityTimer <= 0 =>
         /\ Distance(rec.before) < HIT_RANGE => Connected(rec)
         /\ Distance(rec.before) >= HIT_RANGE => Whiffed(rec)
         /\ far /\ Distance(rec.before) < HIT_RANGE => Connected(rec) /\ ~Whiffed(rec)
         /\ ~far /\ Distance(rec.before) >= HIT_RANGE => Whiffed(rec) /\ ~Connected(rec)

\* C20 witness: an attack initiated in range has whiffed, the target having
\* walked out of range before the hit check
C20_InRangeWhiffed ==
  \E i \in Resolved :
    /\ 0 < initiatedAt[hitLog[i].attacker]
    /\ initiatedAt[hitLog[i].attacker] < HIT_RANGE
    /\ Distance(hitLog[i].before) >= HIT_RANGE
    /\ Whiffed(hitLog[i])

\* an attack initiated out of range has connected, the attacker's opponent
\* having walked into range before the hit check
C20_OutOfRangeConnected ==
  \E i \in Resolved :
    /\ initiatedAt[hitLog[i].attacker] >= HIT_RANGE
    /\ Distance(hitLog[i].before) < HIT_RANGE
    /\ Connected(hitLog[i])

\* places of the arena from which an attacker is tried: both walls and both
\* spawn points, in range of the opponent and out of it
ProbeXs == {ArenaXMin, PlayerSpawnX, EnemySpawnX, ArenaXMax}

\* the world with the attacker a standing at x
Standing(a, x) == [World EXCEPT !.position[a] = x]

\* C21: a hit check against an opponent whose invincibility timer is > 0 is a
\* no-op at any distance: the opponent's health, stun, knockback and
\* animation, the combo state and the attacker's cooldown are as before
C21_WastedHitCheck ==
  \A a \in Roles : \A x \in ProbeXs \cup {position[a]} :
    fighter[Opponent(a)].invincibilityTimer > 0 =>
      checkAttackHit(Standing(a, x), a) = Standing(a, x)

\* C21 witness: a tick is about to run with the enemy invincible, in range of
\* the player who is still in the attack animation
C21_InvincibleInRange ==
  /\ pc = "timer"
  /\ fighter["enemy"].invincibilityTimer > 0
  /\ fighter["enemy"].health > 0
  /\ fighter["player"].currentAnimation = "attack"
  /\ Distance(World) < HIT_RANGE
  /\ Distance(Standing("player", ArenaXMin)) >= HIT_RANGE

\* C22 as stated, for a human who holds the attack control down from the
\* first frame on (SpecHold): the control is newly active on no tick after
\* the first, which lies in the countdown, so no attack is ever initiated
C22_NoAttackWhileHeld == [][~Initiates("player")]_vars

\* the input step of the player reaches the attack test in this state
PlayerFree ==
  /\ ~matchGate(World)
  /\ fighter["player"].health > 0
  /\ fighter["player"].animationTimer <= 0
  /\ fighter["player"].stunTimer <= 0

\* C22 amended: the attack control is polled, not edge-triggered; while it is
\* held down (SpecHold) the human initiates an attack on exactly the ticks on
\* which the input step is neither gated nor locked and the cooldown is <= 0
C22_AttackWhileHeld ==
  [][pc = "player" =>
       (Initiates("player") <=> PlayerFree /\ fighter["player"].attackCooldown <= 0)]_vars

\* C22 witness: with the control held since the first frame, the player has
\* initiated a further attack after an earlier one has landed
C22_HeldAttackAgain ==
  /\ pc = "enemy"
  /\ HasPending(pendingHitChecks, "player", HitCheckDelay)
  /\ fighter["player"].attackCooldown = AttackCooldown
  /\ fighter["enemy"].health < MaxHealth
  /\ fighter["enemy"].health > 0

\* C23 as stated: the blocking flag of the player is true at the end of a
\* tick only if the block control is held on that tick, so an input step run
\* with the control released leaves the flag false, also when the player is
\* animation-locked or stunned and after the match has ended
C23_ReleasedMeansNotBlocking ==
  pc = "player" =>
    \A in \in Inputs :
      ~in.block => ~playerMovementSystem(World, in, dt).fighter["player"].blocking

\* the attack of fighter r of world w is in progress
MidSwing(w, r) ==
  \/ \E i \in 1..Len(w.pendingHitChecks) : w.pendingHitChecks[i].entity = r
  \/ w.fighter[r].currentAnimation = "attack" /\ w.fighter[r].animationTimer > 0

\* C24: a fighter with a pending hit check or in the attack animation lock is
\* not blocking, and a hit check that connects with such a fighter takes the
\* full unblocked damage off its health
C24_NoBlockMidSwing ==
  /\ \A r \in Roles : MidSwing(World, r) => ~fighter[r].blocking
  /\ \A i \in Landed :
       MidSwing(hitLog[i].before, hitLog[i].target) =>
         hitLog[i].after.fighter[hitLog[i].target].health =
           Max(0, hitLog[i].before.fighter[hitLog[i].target].health - AttackDamage)

\* C24 witness: the player was hit in the attack animation, a frame before
\* the own hit check, and lost the full 15
C24_HitMidSwing ==
  \E i \in Landed :
    /\ hitLog[i].target = "player"
    /\ HasPending(hitLog[i].before.pendingHitChecks, "player", HitCheckDelay - dt)
    /\ hitLog[i].before.fighter["player"].currentAnimation = "attack"
    /\ hitLog[i].after.fighter["player"].health =
          hitLog[i].before.fighter["player"].health - AttackDamage

\* C25: a step that leaves its fighter blocking has not moved it: whatever
\* the controls, the input step does not walk a player it leaves blocking,
\* and whatever the random draw, the policy step does not chase with an
\* enemy it leaves blocking
C25_BlockingStandsStill ==
  /\ pc = "player" =>
       \A in \in Inputs :
         LET after == playerMovementSystem(World, in, dt)
         IN after.fighter["player"].blocking => after.position["player"] = position["player"]
  /\ pc = "enemy" =>
       \A rand \in Rands :
         LET after == enemyAISystem(World, rand, dt)
         IN after.fighter["enemy"].blocking => after.position["enemy"] = position["enemy"]

\* C25 witness: the policy step has run with the enemy free to act and out
\* of range, where it chases unless it blocks, and has left it blocking
C25_BlockedInsteadOfChasing ==
  /\ pc = "gameState"
  /\ gameState.isMatchActive
  /\ fighter["enemy"].blocking
  /\ fighter["enemy"].animationTimer <= 0
  /\ fighter["enemy"].stunTimer <= 0
  /\ fighter["player"].health > 0
  /\ fighter["player"].blocking
  /\ Distance(World) > AIChaseDistance

\* C26: a fighter whose animation timer or stun timer is > 0 when its step
\* runs neither moves nor initiates an attack, whatever the controls or the
\* random draw
C26_LockedDoesNothing ==
  /\ pc = "player" /\ (fighter["player"].animationTimer > 0 \/ fighter["player"].stunTimer > 0) =>
       \A in \in Inputs :
         LET after == playerMovementSystem(World, in, dt)
         IN /\ after.position = position
            /\ after.pendingHitChecks = pendingHitChecks
            /\ after.fighter = fighter
  /\ pc = "enemy" /\ (fighter["enemy"].animationTimer > 0 \/ fighter["enemy"].stunTimer > 0) =>
       \A rand \in Rands :
         LET after == enemyAISystem(World, rand, dt)
         IN /\ after.position = position
            /\ after.pendingHitChecks = pendingHitChecks
            /\ after.fighter = fighter

\* C26 witness: the input step has run for a stunned player whose cooldown
\* would have allowed an attack
C26_StunnedPlayerStep ==
  /\ pc = "enemy"
  /\ gameState.isMatchActive
  /\ fighter["player"].stunTimer > 0
  /\ fighter["player"].animationTimer > 0
  /\ fighter["player"].attackCooldown <= 0
  /\ fighter["player"].health > 0

\* the frame's two orders of the input step and the policy step
HumanThenPolicy(in, rand) ==
  enemyAISystem(playerMovementSystem(World, in, dt), rand, dt)

PolicyThenHuman(in, rand) ==
  playerMovementSystem(enemyAISystem(World, rand, dt), in, dt)

\* C27 as stated: for every control state and random draw the two orders
\* leave the same fighters, positions and match state
C27_OrderIrrelevant ==
  pc = "player" =>
    \A in \in Inputs : \A rand \in Rands :
      /\ HumanThenPolicy(in, rand).fighter = PolicyThenHuman(in, rand).fighter
      /\ HumanThenPolicy(in, rand).position = PolicyThenHuman(in, rand).position
      /\ HumanThenPolicy(in, rand).gameState = PolicyThenHuman(in, rand).gameState

\* C27 amended: the player and the match state come out the same in both
\* orders, and so does the whole world when the input step leaves the
\* player's position and attack cooldown as they are; the policy reads both
\* after the input step, so the enemy can come out differently otherwise
C27_OrderMattersToPolicyOnly ==
  pc = "player" =>
    \A in \in Inputs :
    \A human \in {playerMovementSystem(World, in, dt)} :
    \A rand \in Rands :
    \A hp \in {enemyAISystem(human, rand, dt)} :
    \A ph \in {PolicyThenHuman(in, rand)} :
      /\ hp.fighter["player"] = ph.fighter["player"]
      /\ hp.position["player"] = ph.position["player"]
      /\ hp.gameState = ph.gameState
      /\ (/\ human.position = position
          /\ human.fighter["player"].attackCooldown = fighter["player"].attackCooldown)
           => hp = ph

\* C27 witness: a frame in which the order decides whether the enemy attacks:
\* after the player's attack the policy sees the cooldown of 0.8 s and
\* punishes, before it the same draw does nothing
C27_OrderDecidesPunish ==
  /\ pc = "player"
  /\ \E in \in Inputs : \E rand \in Rands :
       /\ HasPending(HumanThenPolicy(in, rand).pendingHitChecks, "enemy", HitCheckDelay)
       /\ PendingOf(PolicyThenHuman(in, rand).pendingHitChecks, "enemy") = {}
       /\ HasPending(PolicyThenHuman(in, rand).pendingHitChecks, "player", HitCheckDelay)

\* the combo count a hit check leaves: an applied hit less than 1.5 s after
\* the previous one lengthens the chain, a later one starts a chain of 1
ChainAfter(rec) ==
  IF rec.outcome \in {"hit", "blocked"}
    THEN IF rec.before.sinceLastHit < COMBO_TIMEOUT
           THEN rec.before.gameState.comboCount + 1
           ELSE 1
    ELSE rec.before.gameState.comboCount

\* C28: comboCount is the length of the chain of applied hits that follow
\* each other by less than 1.5 s: every hit check leaves ChainAfter, a frame
\* outside the countdown sets it to 0 once more than 1.5 s have passed since
\* the last hit, resetMatch sets it to 0, and nothing else changes it
C28_ComboChain ==
  [][/\ pc = "timer" =>
          /\ \A i \in 1..Len(hitLog') :
               hitLog'[i].after.gameState.comboCount = ChainAfter(hitLog'[i])
          /\ hitLog' # <<>> =>
               /\ hitLog'[1].before.gameState.comboCount = gameState.comboCount
               /\ hitLog'[Len(hitLog')].after.gameState.comboCount = gameState'.comboCount
          /\ hitLog' = <<>> => gameState'.comboCount = gameState.comboCount
     /\ pc = "gameState" /\ pc' = "timer" =>
          gameState'.comboCount =
            IF gameState.countdownTimer = 0 /\ sinceLastHit' > COMBO_TIMEOUT
              THEN 0 ELSE gameState.comboCount
     /\ pc = "gameState" /\ pc' = "gameState" => gameState'.comboCount = 0
     /\ pc \in {"player", "enemy"} => gameState'.comboCount = gameState.comboCount]_vars

\* C28 witness: a hit more than 1.5 s after the previous hit of the round
\* has started a new chain of 1
C28_ChainRestarted ==
  /\ pc = "player"
  /\ \E i \in Landed :
       /\ hitLog[i].before.sinceLastHit > COMBO_TIMEOUT
       /\ hitLog[i].before.fighter[hitLog[i].target].health < MaxHealth
       /\ hitLog[i].before.gameState.countdownTimer = 0
       /\ hitLog[i].after.gameState.comboCount = 1
  /\ gameState.comboCount = 1

\* C29 as stated: a hit check that resolves as a whiff (distance >= hit
\* range) leaves comboCount at 0
C29_WhiffResetsCombo ==
  \A i \in Resolved :
    (/\ hitLog[i].before.fighter[hitLog[i].target].invincibilityTimer <= 0
     /\ Distance(hitLog[i].before) >= HIT_RANGE)
      => hitLog[i].after.gameState.comboCount = 0

\* C30 as stated: with the match active, both fighters alive and the enemy
\* not blocking, not locked or stunned and its cooldown ready, the policy
\* step can initiate an attack (some random draw does) at every distance
\* <= 2.3 from the player, also between 2.0 and 2.3
C30_AttacksUpToAttackDistance ==
  (/\ pc = "enemy"
   /\ ~matchGate(World)
   /\ fighter["enemy"].health > 0
   /\ fighter["player"].health > 0
   /\ ~fighter["enemy"].blocking
   /\ fighter["enemy"].animationTimer <= 0
   /\ fighter["enemy"].stunTimer <= 0
   /\ fighter["enemy"].attackCooldown <= 0
   /\ Distance(World) <= AIAttackDistance)
    => \E rand \in Rands :
         HasPending(enemyAISystem(World, rand, dt).pendingHitChecks, "enemy", HitCheckDelay)

\* C31 as stated, for the human: an input step that reaches the movement
\* code with a movement key down and the block and attack controls up
\* leaves the player in the walk animation
C31_MovingMeansWalk ==
  (/\ pc = "player"
   /\ PlayerFree
   /\ fighter["player"].attackCooldown <= RecoveryThreshold)
    => \A in \in Inputs :
         (in.moveX # 0 /\ ~in.block /\ ~in.attack)
           => playerMovementSystem(World, in, dt).fighter["player"].currentAnimation = "walk"

\* C32: while the knockback of a fighter is active neither the input step
\* nor the policy step moves it, whatever the controls or the random draw
C32_KnockbackNotSteered ==
  /\ pc = "player" /\ fighter["player"].knockbackActive =>
       \A in \in Inputs :
         playerMovementSystem(World, in, dt).position["player"] = position["player"]
  /\ pc = "enemy" /\ fighter["enemy"].knockbackActive =>
       \A rand \in Rands :
         enemyAISystem(World, rand, dt).position["enemy"] = position["enemy"]

\* C32 witness: the input step has run in the second frame of the player's
\* knockback, with the stun over and the match still active
C32_StepDuringKnockback ==
  /\ pc = "enemy"
  /\ gameState.isMatchActive
  /\ fighter["player"].knockbackActive
  /\ fighter["player"].knockbackProgress > 0
  /\ fighter["player"].stunTimer <= 0
  /\ fighter["player"].health > 0

\* C33: knockbackProgress is the frame time since the activation; the tick
\* that brings it to 0.25 s or more ends the knockback and puts the progress
\* back to 0, an earlier tick adds its frame time, and no other step but
\* resetMatch touches either, whether the match is active or over
C33_KnockbackEnds ==
  [][\A r \in Roles :
       /\ fighter[r].knockbackActive =>
            /\ 0 <= fighter[r].knockbackProgress
            /\ fighter[r].knockbackProgress < KNOCKBACK_DURATION
       /\ ~fighter[r].knockbackActive => fighter[r].knockbackProgress = 0
       /\ pc = "timer" /\ fighter[r].knockbackActive =>
            IF fighter[r].knockbackProgress + dt >= KNOCKBACK_DURATION
              THEN ~fighter'[r].knockbackActive /\ fighter'[r].knockbackProgress = 0
              ELSE /\ fighter'[r].knockbackActive
                   /\ fighter'[r].knockbackProgress = fighter[r].knockbackProgress + dt
       /\ pc # "timer" /\ SameRound =>
            /\ fighter'[r].knockbackActive = fighter[r].knockbackActive
            /\ fighter'[r].knockbackProgress = fighter[r].knockbackProgress]_vars

\* C33 witness: the knockback of the hit that knocked the enemy out at a
\* combo of 3 or more has ended two frames later, the match being over
C33_EndedAfterKO ==
  /\ pc = "player"
  /\ gameState.winner = "player"
  /\ ~gameState.isMatchActive
  /\ gameState.comboCount >= KnockbackCombo
  /\ sinceLastHit = 2 * dt
  /\ fighter["enemy"].currentAnimation = "die"
  /\ ~fighter["enemy"].blocking
  /\ fighter["enemy"].knockbackDirX = 1
  /\ ~fighter["enemy"].knockbackActive
  /\ fighter["enemy"].knockbackProgress = 0

\* the least time between an attack with this outcome and the next one
MinGap(outcome) ==
  IF outcome = "whiff" THEN AttackCooldown + WhiffPenalty ELSE AttackCooldown

\* C34: whatever the human holds and whatever the AI draws, a fighter's step
\* calls performAttack only when at least 0.8 s of frame time have passed
\* since its last attack of this round, and at least 1.1 s when that attack
\* whiffed
C34_AttackRateLimited ==
  /\ pc = "player" =>
       \A in \in Inputs :
         playerMovementSystem(World, in, dt).pendingHitChecks # pendingHitChecks
           => lastAttack["player"].since >= MinGap(lastAttack["player"].outcome)
  /\ pc = "enemy" =>
       \A rand \in Rands :
         enemyAISystem(World, rand, dt).pendingHitChecks # pendingHitChecks
           => lastAttack["enemy"].since >= MinGap(lastAttack["enemy"].outcome)

\* C34 witness: the human has just started an attack, the hit check of its
\* attack before having whiffed less than SinceCap ago
C34_AttackAfterWhiff ==
  /\ pc = "enemy"
  /\ lastAttack["player"].since = 0
  /\ lastAttack["player"].outcome = "whiff"
  /\ HasPending(pendingHitChecks, "player", HitCheckDelay)
  /\ fighter["player"].attackCooldown = AttackCooldown

\* the step changes the screen from one to the other
ScreenChange(from, to) ==
  menuState.currentScreen = from /\ menuState'.currentScreen = to

\* C35: the screen changes only from title to characterSelect, from there to
\* stageSelect with the enemy's pick, the player's pick having been made, on
\* to loading, to battle once 2.0 s of frame time have been spent loading,
\* and from battle back to title by returnToMainMenu
C35_ScreenFlow ==
  [][/\ menuState.currentScreen \in MenuScreens
     /\ menuState.currentScreen = "characterSelect" =>
          /\ menuState.enemyCharacterId = ""
          /\ menuState.selectingPlayer <=> menuState.playerCharacterId = ""
     /\ menuState'.currentScreen # menuState.currentScreen =>
          \/ ScreenChange("title", "characterSelect") /\ menuState'.selectingPlayer
          \/ /\ ScreenChange("characterSelect", "stageSelect")
             /\ ~menuState.selectingPlayer
             /\ menuState'.playerCharacterId = menuState.playerCharacterId
             /\ menuState'.playerCharacterId \in CHARACTERS
             /\ menuState'.enemyCharacterId \in CHARACTERS
          \/ ScreenChange("stageSelect", "loading") /\ menuState'.stageId \in STAGES
          \/ ScreenChange("loading", "battle") /\ menuLog'.loadingTime >= LoadingDuration
          \/ /\ ScreenChange("battle", "title")
             /\ ~battleInitialized' /\ ~battleEntities'
             /\ menuState' = createMenuState]_vars

\* C35 witness: the title screen is shown again after a battle that was
\* entered from the loading screen
C35_BackAtTitle ==
  /\ menuState.currentScreen = "title"
  /\ menuLog.battles = 1
  /\ menuLog.loadingTime = LoadingDuration
  /\ ~battleInitialized
  /\ ~battleEntities

\* C36: initializeBattle has run once for each entry into the battle screen,
\* the battle screen is never shown without its fighters, and the game
\* systems have been added to the engine once from the first battle on
C36_InitializedOncePerBattle ==
  /\ menuLog.initializeBattle = menuLog.battles
  /\ menuLog.addSystem = (IF menuLog.battles > 0 THEN 1 ELSE 0)
  /\ systemsRegistered <=> menuLog.addSystem = 1
  /\ menuState.currentScreen = "battle" => battleInitialized /\ battleEntities
  /\ menuState.currentScreen # "battle" => ~battleInitialized /\ ~battleEntities

\* C36 witness: the second battle has been fought to its knockout
C36_SecondBattleFought ==
  /\ menuState.currentScreen = "battle"
  /\ menuLog.battles = 2
  /\ menuLog.initializeBattle = 2
  /\ menuLog.addSystem = 1
  /\ gameState.winner # ""

\* C37: once a knockout has set the winner, no step of the round changes it,
\* and no hit check that runs with the winner set leaves another winner
C37_WinnerKept ==
  [][/\ gameState.winner # "" /\ SameRound => gameState'.winner = gameState.winner
     /\ \A i \in 1..Len(hitLog') :
          hitLog'[i].before.gameState.winner # ""
            => hitLog'[i].after.gameState.winner = hitLog'[i].before.gameState.winner]_vars

\* C38: resetMatch leaves no hit check scheduled, and while the countdown runs
\* none is scheduled and none is run, so that no hit check changes a fighter
\* of the new round
C38_ResetLeavesNoPending ==
  [][/\ ~SameRound => pendingHitChecks' = <<>>
     /\ gameState'.countdownTimer > 0 =>
          /\ pendingHitChecks' = <<>>
          /\ pc = "timer" =>
               /\ hitLog' = <<>>
               /\ \A r \in Roles :
                    /\ fighter'[r].attackCooldown = fighter[r].attackCooldown
                    /\ fighter'[r].health = fighter[r].health
                    /\ fighter'[r].stunTimer = fighter[r].stunTimer
                    /\ fighter'[r].knockbackActive = fighter[r].knockbackActive]_vars

\* C39: every hit check the timer system has run found its target with
\* invincibilityTimer <= 0, so none has taken the early exit for an
\* invincible opponent
C39_NeverInvincibleAtHitCheck ==
  \A i \in 1..Len(hitLog) :
    /\ hitLog[i].before.fighter[hitLog[i].target].invincibilityTimer <= 0
    /\ hitLog[i].outcome # "invincible"

\* C39 witness: a hit check has connected with a target whose i-frames of an
\* earlier hit have run out
C39_HitAfterIFrames ==
  \E i \in 1..Len(hitLog) :
    /\ hitLog[i].outcome \in {"hit", "blocked"}
    /\ hitLog[i].before.fighter[hitLog[i].target].invincibilityTimer < 0
    /\ hitLog[i].before.fighter[hitLog[i].target].health < MaxHealth
    /\ hitLog[i].after.fighter[hitLog[i].target].invincibilityTimer = InvincibilityDuration

====
